---- MODULE Spec2Model ----
(***************************************************************************)
(* Model of arthur/jobs.py: the PercevalJob wrapper (run, cache handling,  *)
(* metadata tagging) and the retry/resume loop of execute_perceval_job.    *)
(*                                                                         *)
(* Python values are encoded as follows.                                   *)
(*   None          <<>>                                                    *)
(*   a value v     <<v>>   (so that None and 0 stay distinguishable)       *)
(*   a dict        a function from its keys (strings) to its values        *)
(* An item is a dict with the keys "uuid" and "updated_on", and "offset"   *)
(* only when the backend reports one.                                      *)
(***************************************************************************)
EXTENDS Integers, Sequences, FiniteSets, TLC

\* ---------------------------------------------------------------- bounds
\* Items the output queue may receive in one behaviour.
MaxItems == 2
\* Largest value of the max_retries parameter.
MaxRetries == 2
\* Calls of PercevalJob.run a direct client makes (specification SpecJob).
MaxCalls == 2
\* Items other jobs push to the same queue (specification SpecShared).
MaxOthers == 1

\* ------------------------------------------------------- python encoding
None == <<>>
Some(v) == <<v>>

\* Truth value of an optional number: None and 0 are both false.
Truthy(x) == x # None /\ x[1] # 0

\* Truth value of an optional string: None and "" are both false.
TruthyPath(p) == p # None /\ p[1] # ""

EmptyDict == [k \in {} |-> None]

\* d[k] = v on a dict
DictSet(d, k, v) == [x \in (DOMAIN d) \cup {k} |-> IF x = k THEN v ELSE d[x]]

\* ------------------------------------------------------ the environment
JobId == "job-1"
TaskId == "task-1"
BackendName == "git"
Version == "0.1.0"

\* updated_on is a UNIX timestamp: dates before the epoch are negative.
Timestamps == {-1, 0, 1}
Offsets == {0, 1}

\* The identifier of the item that follows n delivered ones: consecutive
\* items of a backend differ in their uuid.
Uuid(n) == IF n % 2 = 0 THEN "u1" ELSE "u2"

\* Items as a backend's fetch / fetch_from_cache may yield them after n
\* delivered ones.
RawItems(n) ==
    {[uuid |-> Uuid(n), updated_on |-> t] : t \in Timestamps}
    \cup {[uuid |-> Uuid(n), updated_on |-> t, offset |-> o] :
             t \in Timestamps, o \in Offsets}

\* grimoirelab.toolkit.datetime.unixtime_to_datetime: the timezone-aware
\* (UTC) datetime that lies ut seconds after the epoch.
UnixtimeToDatetime(ut) == [epoch_seconds |-> ut, tzinfo |-> "UTC"]

\* Argument bags a caller may hand to the job.
BackendArgsSet ==
    { EmptyDict,
      ("from_date" :> UnixtimeToDatetime(7)) @@ ("offset" :> 7) @@ ("uri" :> "repo") }

CachePaths == {None, Some(""), Some("dir")}

VARIABLES
    bklass,            \* the backend class: its has_caching / has_resuming answers
    backend_args,      \* caller's argument bag
    cache_path,        \* execute_perceval_job parameter
    fetch_from_cache,  \* execute_perceval_job / run parameter
    max_retries,       \* execute_perceval_job parameter
    cache,             \* job.cache: None or the Cache opened on a path
    result,            \* job._result: the JobResult
    resume,            \* flag handed to the next call of run
    failures,          \* execute_perceval_job's counter
    pc,                \* position of the control flow
    error,             \* the exception in flight, or the one raised to the caller
    args,              \* run's local copy of the argument bag
    item,              \* the item between _execute's yield and the record update
    qitems,            \* the Redis list the items are pushed to
    trace,             \* what happened, in order: backup, run, yield, raise,
                       \* recover, other (a push of another job)
    mark               \* length of qitems when the JobResult was last replaced

vars == <<bklass, backend_args, cache_path, fetch_from_cache, max_retries, cache,
          result, resume, failures, pc, error, args, item, qitems, trace, mark>>

params == <<bklass, backend_args, cache_path, max_retries>>

\* --------------------------------------------------------------- JobResult
JobResult(job_id, task_id, backend, last_uuid, max_date, nitems, offset, nresumed) ==
    [job_id |-> job_id, task_id |-> task_id, backend |-> backend,
     last_uuid |-> last_uuid, max_date |-> max_date, nitems |-> nitems,
     offset |-> offset, nresumed |-> nresumed]

FreshResult == JobResult(JobId, TaskId, BackendName, None, None, 0, None, 0)

\* ---------------------------------------------------------------- metadata
\* (variant: the job's id is not set)
MetadataVersionOnly(it, job_id) == DictSet(it, "arthur_version", Version)

\* The decorator around _execute: tags each item before it is yielded.
Metadata(it, job_id) ==
    DictSet(DictSet(it, "arthur_version", Version), "job_id", job_id)

\* ------------------------------------------------------------ PercevalJob.run
\* The argument bag run hands to _execute.
RunArgs(bargs, c, res, rs) ==
    LET a0 == DictSet(bargs, "cache", c)
        a1 == IF rs /\ Truthy(res.max_date)
              THEN DictSet(a0, "from_date", UnixtimeToDatetime(res.max_date[1]))
              ELSE a0
        a2 == IF rs /\ Truthy(res.offset)
              THEN DictSet(a1, "offset", res.offset[1])
              ELSE a1
    IN a2

\* (variant: only the counter and the last uuid are reset)
RunResultKeepsProgress(res, rs) ==
    IF ~rs
    THEN [res EXCEPT !.nitems = 0, !.last_uuid = None]
    ELSE [res EXCEPT !.nresumed = @ + 1]

\* (variant: a resumed run does not count itself)
RunResultUncounted(res, rs) ==
    IF ~rs
    THEN JobResult(JobId, TaskId, BackendName, None, None, 0, None, 0)
    ELSE res

\* The JobResult run starts from.
RunResult(res, rs) ==
    IF ~rs
    THEN JobResult(JobId, TaskId, BackendName, None, None, 0, None, 0)
    ELSE [res EXCEPT !.nresumed = @ + 1]

\* (variant: the item is counted only when it advances max_date)
UpdatedResultCountsNewest(res, it) ==
    LET r1 == [res EXCEPT !.last_uuid = Some(it["uuid"])]
        r2 == IF ~Truthy(r1.max_date) \/ r1.max_date[1] < it["updated_on"]
              THEN [r1 EXCEPT !.max_date = Some(it["updated_on"]), !.nitems = @ + 1]
              ELSE r1
        r3 == IF "offset" \in DOMAIN it
              THEN [r2 EXCEPT !.offset = Some(it["offset"])]
              ELSE r2
    IN r3

\* (variant: the offset is taken only when it is not zero)
UpdatedResultOffsetIfTrue(res, it) ==
    LET r1 == [res EXCEPT !.nitems = @ + 1, !.last_uuid = Some(it["uuid"])]
        r2 == IF ~Truthy(r1.max_date) \/ r1.max_date[1] < it["updated_on"]
              THEN [r1 EXCEPT !.max_date = Some(it["updated_on"])]
              ELSE r1
        r3 == IF "offset" \in DOMAIN it /\ it["offset"] # 0
              THEN [r2 EXCEPT !.offset = Some(it["offset"])]
              ELSE r2
    IN r3

\* The record update that follows the push of an item.
UpdatedResult(res, it) ==
    LET r1 == [res EXCEPT !.nitems = @ + 1, !.last_uuid = Some(it["uuid"])]
        r2 == IF ~Truthy(r1.max_date) \/ r1.max_date[1] < it["updated_on"]
              THEN [r1 EXCEPT !.max_date = Some(it["updated_on"])]
              ELSE r1
        r3 == IF "offset" \in DOMAIN it
              THEN [r2 EXCEPT !.offset = Some(it["offset"])]
              ELSE r2
    IN r3

NRuns == Cardinality({i \in DOMAIN trace : trace[i].op = "run"})

\* Items other jobs have pushed to the queue.
NOthers == Cardinality({i \in DOMAIN trace : trace[i].op = "other"})

\* (variant: run writes into the caller's dict instead of a copy)
CallerBagAliased(bargs, a) == a

\* The caller's dict once run has built its bag a: run writes into a copy.
CallerBag(bargs, a) == bargs

\* run, up to the first request for an item.
Run ==
    /\ pc = "loop"
    /\ args' = RunArgs(backend_args, cache, result, resume)
    /\ result' = RunResult(result, resume)
    /\ mark' = IF resume THEN mark ELSE Len(qitems)
    /\ trace' = Append(trace, [op |-> "run", resume |-> resume,
                               fetch_from_cache |-> fetch_from_cache,
                               args |-> args', prior |-> result,
                               fresh |-> result'])
    /\ backend_args' = CallerBag(backend_args, args')
    /\ pc' = "execute"
    /\ UNCHANGED <<bklass, cache_path, max_retries, fetch_from_cache, cache, resume,
                   failures, error, item, qitems>>

\* _execute yields the next item of fetch / fetch_from_cache, tagged.
Yield(raw) ==
    /\ pc = "execute"
    /\ Len(qitems) - NOthers < MaxItems
    /\ item' = Some(Metadata(raw, JobId))
    /\ trace' = Append(trace, [op |-> "yield"])
    /\ pc' = "push"
    /\ UNCHANGED <<params, fetch_from_cache, cache, result, resume, failures, error,
                   args, qitems, mark>>

\* The generator is exhausted: run returns.
Exhausted ==
    /\ pc = "execute"
    /\ pc' = "returned"
    /\ UNCHANGED <<params, fetch_from_cache, cache, result, resume, failures, error,
                   args, item, qitems, trace, mark>>

\* Parameter binding, the backend's constructor or its fetch raises.
Raise(type) ==
    /\ pc = "execute"
    /\ error' = Some([type |-> type, src |-> "backend", attempt |-> NRuns])
    /\ trace' = Append(trace, [op |-> "raise", e |-> error'[1]])
    /\ pc' = "raised"
    /\ UNCHANGED <<params, fetch_from_cache, cache, result, resume, failures,
                   args, item, qitems, mark>>

\* (variant: the item is pushed at the head of the list)
PushFront ==
    /\ pc = "push"
    /\ qitems' = <<item[1]>> \o qitems
    /\ pc' = "update"
    /\ UNCHANGED <<params, fetch_from_cache, cache, result, resume, failures, error,
                   args, item, trace, mark>>

\* conn.rpush(qitems, pickle.dumps(item))
Push ==
    /\ pc = "push"
    /\ qitems' = Append(qitems, item[1])
    /\ pc' = "update"
    /\ UNCHANGED <<params, fetch_from_cache, cache, result, resume, failures, error,
                   args, item, trace, mark>>

\* rpush raises (connection lost): nothing is appended.
PushFail ==
    /\ pc = "push"
    /\ error' = Some([type |-> "Exception", src |-> "rpush", attempt |-> NRuns])
    /\ trace' = Append(trace, [op |-> "raise", e |-> error'[1]])
    /\ item' = None
    /\ pc' = "raised"
    /\ UNCHANGED <<params, fetch_from_cache, cache, result, resume, failures,
                   args, qitems, mark>>

Update ==
    /\ pc = "update"
    /\ result' = UpdatedResult(result, item[1])
    /\ item' = None
    /\ pc' = "execute"
    /\ UNCHANGED <<params, fetch_from_cache, cache, resume, failures, error,
                   args, qitems, trace, mark>>

\* ------------------------------------------------------ execute_perceval_job
\* (variant: the flag is not looked at)
CacheUnsupportedPathOnly(hc, cp, ffc) == ~hc /\ TruthyPath(cp)

\* not job.has_caching() and (cache_path or fetch_from_cache)
CacheUnsupported(hc, cp, ffc) == ~hc /\ (TruthyPath(cp) \/ ffc)

\* (variant: one except clause for every exception)
RetryableAlways(e) == TRUE

\* The exception reaches the second except clause.
Retryable(e) == e.type # "AttributeError"

\* (variant: one more attempt than max_retries)
GiveUpLate(hr, f, mr) == ~hr \/ f > mr

\* not job.has_resuming() or failures >= max_retries
GiveUp(hr, f, mr) == ~hr \/ f >= mr

\* cache_path and not fetch_from_cache
Writable(cp, ffc) == TruthyPath(cp) /\ ~ffc

\* (variant: the backup is taken whatever the flag says)
InitializeCacheAlwaysBackup(tr, backup) == Append(tr, [op |-> "backup"])

\* initialize_cache's calls on the Cache it has opened.
InitializeCache(tr, backup) ==
    IF backup THEN Append(tr, [op |-> "backup"]) ELSE tr

\* (variant: no test of the job's cache)
RecoverCacheUnguarded(c) == TRUE

\* recover_cache calls Cache.recover() unless the job has no cache.
RecoverCache(c) == c # None

\* Job construction, the cache precondition, initialize_cache and the
\* loop's initial values.
Start ==
    /\ pc = "start"
    /\ IF CacheUnsupported(bklass.has_caching, cache_path, fetch_from_cache)
       THEN /\ error' = Some([type |-> "AttributeError", src |-> "precondition",
                              attempt |-> 0])
            /\ pc' = "failed"
            /\ UNCHANGED <<cache, trace, resume, failures>>
       ELSE /\ IF TruthyPath(cache_path)
               THEN /\ cache' = Some(cache_path[1])
                    /\ trace' = InitializeCache(trace, ~fetch_from_cache)
               ELSE UNCHANGED <<cache, trace>>
            /\ resume' = FALSE
            /\ failures' = 0
            /\ pc' = "loop"
            /\ UNCHANGED error
    /\ UNCHANGED <<params, fetch_from_cache, result, args, item, qitems, mark>>

\* except AttributeError as e: raise e
HandleAttributeError ==
    /\ pc = "raised"
    /\ ~Retryable(error[1])
    /\ pc' = "failed"
    /\ UNCHANGED <<params, fetch_from_cache, cache, result, resume, failures, error,
                   args, item, qitems, trace, mark>>

\* except Exception as e: count, roll the cache back, give up or resume.
\* recover_ok is whether Cache.recover() completes.
HandleException(recover_ok) ==
    /\ pc = "raised"
    /\ Retryable(error[1])
    /\ failures' = failures + 1
    /\ LET writable == Writable(cache_path, fetch_from_cache)
           recovers == writable /\ RecoverCache(cache)
       IN /\ trace' = IF recovers THEN Append(trace, [op |-> "recover"]) ELSE trace
          /\ IF recovers /\ ~recover_ok
             THEN /\ error' = Some([type |-> "Exception", src |-> "recover",
                                    attempt |-> NRuns])
                  /\ pc' = "failed"
                  /\ UNCHANGED <<cache, resume>>
             ELSE /\ cache' = IF writable THEN None ELSE cache
                  /\ IF GiveUp(bklass.has_resuming, failures', max_retries)
                     THEN /\ pc' = "failed"
                          /\ UNCHANGED resume
                     ELSE /\ resume' = TRUE
                          /\ pc' = "loop"
                  /\ UNCHANGED error
    /\ UNCHANGED <<params, fetch_from_cache, result, args, item, qitems, mark>>

\* else: run_job = False; return job.result
Return ==
    /\ pc = "returned"
    /\ pc' = "done"
    /\ UNCHANGED <<params, fetch_from_cache, cache, result, resume, failures, error,
                   args, item, qitems, trace, mark>>

Init ==
    /\ bklass \in [has_caching : BOOLEAN, has_resuming : BOOLEAN]
    /\ backend_args \in BackendArgsSet
    /\ cache_path \in CachePaths
    /\ fetch_from_cache \in BOOLEAN
    /\ max_retries \in (-1)..MaxRetries
    /\ cache = None
    /\ result = FreshResult
    /\ resume = FALSE
    /\ failures = 0
    /\ pc = "start"
    /\ error = None
    /\ args = EmptyDict
    /\ item = None
    /\ qitems = <<>>
    /\ trace = <<>>
    /\ mark = 0

Next ==
    \/ Start
    \/ Run
    \/ \E raw \in RawItems(Len(qitems)) : Yield(raw)
    \/ Exhausted
    \/ \E type \in {"AttributeError", "Exception"} : Raise(type)
    \/ Push
    \/ PushFail
    \/ Update
    \/ HandleAttributeError
    \/ \E recover_ok \in BOOLEAN : HandleException(recover_ok)
    \/ Return

Spec == Init /\ [][Next]_vars

\* The job runs in one thread that is never suspended for good: a step that
\* can be taken is taken.
FairSpec == Spec /\ WF_vars(Next)

\* ------------------------------------------------ a client of PercevalJob
\* A caller that owns a PercevalJob and calls run on it directly, with any
\* flags, catching what run raises.
ClientCall(rs) ==
    /\ pc = "idle"
    /\ NRuns < MaxCalls
    /\ resume' = rs
    /\ pc' = "loop"
    /\ UNCHANGED <<params, fetch_from_cache, cache, result, failures, error, args,
                   item, qitems, trace, mark>>

ClientResume ==
    /\ pc \in {"returned", "raised"}
    /\ pc' = "idle"
    /\ UNCHANGED <<params, fetch_from_cache, cache, result, resume, failures, error,
                   args, item, qitems, trace, mark>>

InitJob ==
    /\ bklass = [has_caching |-> TRUE, has_resuming |-> TRUE]
    /\ backend_args \in BackendArgsSet
    /\ cache_path = None
    /\ fetch_from_cache = FALSE
    /\ max_retries = 0
    /\ cache = None
    /\ result = FreshResult
    /\ resume = FALSE
    /\ failures = 0
    /\ pc = "idle"
    /\ error = None
    /\ args = EmptyDict
    /\ item = None
    /\ qitems = <<>>
    /\ trace = <<>>
    /\ mark = 0

NextJob ==
    \/ \E rs \in BOOLEAN : ClientCall(rs)
    \/ Run
    \/ \E raw \in RawItems(Len(qitems)) : Yield(raw)
    \/ Exhausted
    \/ Raise("Exception")
    \/ Push
    \/ PushFail
    \/ Update
    \/ ClientResume

SpecJob == InitJob /\ [][NextJob]_vars

\* ------------------------------------------- one run on a shared queue
\* An item of another job, tagged by that job.
OtherItem ==
    [uuid |-> "x1", updated_on |-> 0, job_id |-> "job-2", arthur_version |-> Version]

\* Another job's rpush on the same Redis list: an append, at any moment.
OtherPush ==
    /\ NOthers < MaxOthers
    /\ qitems' = Append(qitems, OtherItem)
    /\ trace' = Append(trace, [op |-> "other"])
    /\ UNCHANGED <<params, fetch_from_cache, cache, result, resume, failures, error,
                   args, item, pc, mark>>

\* A job about to make one call run(resume=False).
InitShared ==
    /\ bklass = [has_caching |-> TRUE, has_resuming |-> TRUE]
    /\ backend_args \in BackendArgsSet
    /\ cache_path = None
    /\ fetch_from_cache = FALSE
    /\ max_retries = 0
    /\ cache = None
    /\ result = FreshResult
    /\ resume = FALSE
    /\ failures = 0
    /\ pc = "loop"
    /\ error = None
    /\ args = EmptyDict
    /\ item = None
    /\ qitems = <<>>
    /\ trace = <<>>
    /\ mark = 0

NextShared ==
    \/ Run
    \/ \E raw \in RawItems(Len(qitems)) : Yield(raw)
    \/ Exhausted
    \/ Raise("Exception")
    \/ Push
    \/ PushFail
    \/ Update
    \/ OtherPush

SpecShared == InitShared /\ [][NextShared]_vars

\* ------------------------------------------------------------ properties
RunIdx == {i \in DOMAIN trace : trace[i].op = "run"}
RaiseIdx == {i \in DOMAIN trace : trace[i].op = "raise"}
MaxOf(S) == CHOOSE x \in S : \A y \in S : y <= x
MinOf(S) == CHOOSE x \in S : \A y \in S : x <= y

\* The exception the latest / the first call of run ended with.
LastRaised == trace[MaxOf(RaiseIdx)].e
FirstRaised == trace[MinOf(RaiseIdx)].e

\* C1 (retry bound): when the backend supports resuming, max_retries >= 1 and
\* every call of run ended with a retryable error, execute_perceval_job has
\* called run exactly max_retries times when it fails, and the error it
\* raises is the one the last call of run raised.
C1_RetryBound ==
    (/\ pc = "failed"
     /\ max_retries >= 1
     /\ bklass.has_resuming
     /\ RaiseIdx # {}
     /\ \A i \in RaiseIdx : trace[i].e.type # "AttributeError")
    => (NRuns = max_retries /\ error = Some(LastRaised))

\* The retry bound as the code keeps it: it holds of every execution in which
\* Cache.recover() did not raise.
RetryBoundUnlessRecoverRaises ==
    (/\ pc = "failed"
     /\ max_retries >= 1
     /\ bklass.has_resuming
     /\ RaiseIdx # {}
     /\ \A i \in RaiseIdx : trace[i].e.type # "AttributeError"
     /\ error[1].src # "recover")
    => (NRuns = max_retries /\ error = Some(LastRaised))

\* C2 (no-resume short-circuit): when has_resuming() is false and the first
\* call of run fails with a retryable error, run is called exactly once and
\* execute_perceval_job raises that error, whatever max_retries is.
C2_NoResumeShortCircuit ==
    (/\ ~bklass.has_resuming
     /\ RaiseIdx # {}
     /\ FirstRaised.type # "AttributeError")
    => (/\ NRuns = 1
        /\ pc \in {"raised", "failed"}
        /\ pc = "failed" => error = Some(FirstRaised))

\* The part of C2 the code keeps: one call of run, whatever is raised then.
NoResumeSingleRun ==
    (~bklass.has_resuming /\ RaiseIdx # {}) => (NRuns = 1 /\ pc \in {"raised", "failed"})

\* C3 (cache precondition): when has_caching() is false and a cache path or
\* the fetch_from_cache flag is given, execute_perceval_job fails with the
\* invalid-operation error before run is called, before a cache is opened or
\* backed up and before an item is pushed.
C3_CachePrecondition ==
    (~bklass.has_caching /\ (TruthyPath(cache_path) \/ fetch_from_cache))
    => (/\ pc \in {"start", "failed"}
        /\ trace = <<>>
        /\ qitems = <<>>
        /\ cache = None
        /\ pc = "failed" =>
              error = Some([type |-> "AttributeError", src |-> "precondition",
                            attempt |-> 0]))

\* The flag alone, without a cache path, has made the job fail.
C3_Witness ==
    /\ pc = "failed"
    /\ ~bklass.has_caching
    /\ fetch_from_cache
    /\ cache_path = None
    /\ error[1].src = "precondition"

\* C4 (non-retryable error): an AttributeError raised by a call of run is
\* the last thing that happens: no call of run, no recover() follows it, and
\* it is the error execute_perceval_job raises.
C4_NonRetryablePropagates ==
    \A i \in RaiseIdx :
        trace[i].e.type = "AttributeError"
        => (/\ i = Len(trace)
            /\ pc \in {"raised", "failed"}
            /\ error = Some(trace[i].e)
            /\ failures = NRuns - 1)

\* A resumed attempt raised the AttributeError while retries were left.
C4_Witness ==
    /\ pc = "failed"
    /\ error[1].type = "AttributeError"
    /\ error[1].src = "backend"
    /\ bklass.has_resuming
    /\ NRuns = 2
    /\ failures < max_retries

\* C5 (resume injection): every call of run with resume=true hands the
\* backend a from_date that is the datetime of the recorded max_date and an
\* offset that is the recorded offset, whenever the field is recorded,
\* whatever its value.
C5_ResumeInjection ==
    \A i \in RunIdx :
        trace[i].resume =>
            /\ trace[i].prior.max_date # None =>
                  /\ "from_date" \in DOMAIN trace[i].args
                  /\ trace[i].args["from_date"]
                        = UnixtimeToDatetime(trace[i].prior.max_date[1])
            /\ trace[i].prior.offset # None =>
                  /\ "offset" \in DOMAIN trace[i].args
                  /\ trace[i].args["offset"] = trace[i].prior.offset[1]

\* What the code injects: the recorded values that are not zero.
ResumeInjectionOfNonZero ==
    \A i \in RunIdx :
        trace[i].resume =>
            /\ (trace[i].prior.max_date # None /\ trace[i].prior.max_date[1] # 0) =>
                  /\ "from_date" \in DOMAIN trace[i].args
                  /\ trace[i].args["from_date"]
                        = UnixtimeToDatetime(trace[i].prior.max_date[1])
            /\ (trace[i].prior.offset # None /\ trace[i].prior.offset[1] # 0) =>
                  /\ "offset" \in DOMAIN trace[i].args
                  /\ trace[i].args["offset"] = trace[i].prior.offset[1]

\* Timestamps of the items pushed since the JobResult was last replaced.
PushedTimestamps == {qitems[i]["updated_on"] : i \in (mark + 1)..Len(qitems)}

\* C6 (max_date is the maximum): once every pushed item is recorded,
\* max_date is the largest updated_on among the items processed since the
\* record was created (absent when there is none).
C6_MaxDateIsMaximum ==
    pc # "update" =>
        IF PushedTimestamps = {}
        THEN result.max_date = None
        ELSE result.max_date = Some(MaxOf(PushedTimestamps))

\* What the code keeps of C6: max_date is the maximum as long as no item
\* dated before the epoch follows one dated at the epoch.
MaxDateIsMaximumSinceEpoch ==
    (pc # "update" /\ \A t \in PushedTimestamps : t >= 0) =>
        IF PushedTimestamps = {}
        THEN result.max_date = None
        ELSE result.max_date = Some(MaxOf(PushedTimestamps))

\* C7 (reset on non-resume): a call run(resume=false) starts, whatever the
\* record held, from a record with nitems = 0, nresumed = 0 and no last_uuid,
\* max_date and offset, that keeps job_id, task_id and backend.
C7_ResetOnNonResume ==
    \A i \in RunIdx :
        ~trace[i].resume =>
            /\ trace[i].fresh.nitems = 0
            /\ trace[i].fresh.nresumed = 0
            /\ trace[i].fresh.last_uuid = None
            /\ trace[i].fresh.max_date = None
            /\ trace[i].fresh.offset = None
            /\ trace[i].fresh.job_id = trace[i].prior.job_id
            /\ trace[i].fresh.task_id = trace[i].prior.task_id
            /\ trace[i].fresh.backend = trace[i].prior.backend

\* A non-resuming run began on a record that held items, a date, an offset
\* and a resume count.
C7_Witness ==
    \E i \in RunIdx :
        /\ ~trace[i].resume
        /\ trace[i].prior.nitems > 0
        /\ trace[i].prior.nresumed > 0
        /\ trace[i].prior.max_date # None
        /\ trace[i].prior.offset # None

\* C8 (item count): nitems is the number of items pushed since the record
\* was last replaced whenever run is not between a push and its record
\* update, and one less exactly there.
C8_ItemCount ==
    LET pushes == Len(qitems) - mark
    IN /\ result.nitems <= pushes
       /\ pushes <= result.nitems + 1
       /\ pc \in {"returned", "raised", "idle"} => result.nitems = pushes
       /\ pushes = result.nitems + 1 <=> pc = "update"

\* A push failed after an item had been pushed and recorded.
C8_Witness ==
    /\ pc = "raised"
    /\ error[1].src = "rpush"
    /\ result.nitems >= 1
    /\ Len(qitems) - mark = result.nitems

\* C9 (metadata tagging): every item in the output queue carries the job's
\* id as job_id and the system's version as arthur_version.
C9_MetadataTagging ==
    \A i \in DOMAIN qitems :
        /\ {"job_id", "arthur_version"} \subseteq DOMAIN qitems[i]
        /\ qitems[i]["job_id"] = result.job_id
        /\ qitems[i]["arthur_version"] = Version

\* An item replayed from the cache was pushed by a resumed attempt.
C9_Witness ==
    /\ fetch_from_cache
    /\ result.nresumed >= 1
    /\ pc = "update"
    /\ Len(qitems) = 2

\* C10 (recovery failure does not mask): whenever execute_perceval_job
\* fails after a call of run, the error it raises to its caller is the one
\* the last call of run raised, not one raised by the cache recovery.
C10_RecoverFailureDoesNotMask ==
    (pc = "failed" /\ RaiseIdx # {}) => error[1].src # "recover"

BackupIdx == {i \in DOMAIN trace : trace[i].op = "backup"}
RecoverIdx == {i \in DOMAIN trace : trace[i].op = "recover"}

\* C11 (backup and rollback order): with a cache path on a caching backend,
\* once the cache is initialized backup() has been called exactly once, as
\* the first call of all, when fetch_from_cache is false, and never when it
\* is true; and in the first case, once the handler of the first attempt's
\* retryable error has acted, recover() is the call that follows that error,
\* ahead of the next call of run and of the abort.
C11_BackupRecoverOrder ==
    (TruthyPath(cache_path) /\ bklass.has_caching /\ pc # "start")
    => /\ fetch_from_cache => BackupIdx = {}
       /\ ~fetch_from_cache =>
             /\ BackupIdx = {1}
             /\ (/\ RaiseIdx # {}
                 /\ FirstRaised.type # "AttributeError"
                 /\ ~(pc = "raised" /\ MinOf(RaiseIdx) = Len(trace)))
                => /\ MinOf(RaiseIdx) + 1 \in RecoverIdx
                   /\ \A i \in RunIdx : i > MinOf(RaiseIdx) => i > MinOf(RaiseIdx) + 1

\* backup, a failing first attempt, recover, and then the resumed attempt.
C11_Witness ==
    /\ TruthyPath(cache_path)
    /\ ~fetch_from_cache
    /\ BackupIdx = {1}
    /\ NRuns = 2
    /\ RecoverIdx # {}
    /\ MaxOf(RecoverIdx) < MaxOf(RunIdx)

\* C12 (progress across retries): when execute_perceval_job returns after
\* a failed and a resumed attempt, the record is the job's own and counts the
\* items pushed by all attempts, last_uuid is the id of the last item pushed,
\* and every resumed attempt was handed, as from_date, the max_date the
\* attempt before it had recorded.
C12_ProgressCarried ==
    (pc = "done" /\ NRuns >= 2)
    => /\ result.job_id = JobId
       /\ result.nitems = Len(qitems)
       /\ qitems # <<>> => result.last_uuid = Some(qitems[Len(qitems)]["uuid"])
       /\ \A i \in RunIdx :
             (trace[i].resume /\ trace[i].prior.max_date # None)
             => /\ "from_date" \in DOMAIN trace[i].args
                /\ trace[i].args["from_date"]
                      = UnixtimeToDatetime(trace[i].prior.max_date[1])

\* What the code keeps of C12: the record is not reset between attempts.
ProgressCarriedCounts ==
    (pc = "done" /\ NRuns >= 2)
    => /\ result.job_id = JobId
       /\ result.nitems = Len(qitems)
       /\ result.nresumed = NRuns - 1
       /\ qitems # <<>> => result.last_uuid = Some(qitems[Len(qitems)]["uuid"])
       /\ \A i \in RunIdx :
             (trace[i].resume /\ Truthy(trace[i].prior.max_date))
             => /\ "from_date" \in DOMAIN trace[i].args
                /\ trace[i].args["from_date"]
                      = UnixtimeToDatetime(trace[i].prior.max_date[1])

YieldIdx == {i \in DOMAIN trace : trace[i].op = "yield"}
IsMine(x) == x["job_id"] = JobId

\* The job's own items in the queue, in the queue's order.
Mine(q) == SelectSeq(q, IsMine)

\* The item in flight goes to the tail of the job's items in the queue, and
\* no other step changes the job's items in the queue.
PushesInProductionOrder ==
    IF pc = "push" /\ pc' = "update"
    THEN Mine(qitems') = Append(Mine(qitems), item[1])
    ELSE Mine(qitems') = Mine(qitems)

\* C13 (push order), as claimed: in a run every item the backend has
\* produced is in the queue exactly once when the run ends, and each is
\* pushed behind the job's earlier items, whatever other jobs push between.
C13_PushOrder ==
    /\ [](pc \in {"returned", "raised"} => Len(Mine(qitems)) = Cardinality(YieldIdx))
    /\ [][PushesInProductionOrder]_vars

\* C13 as the code keeps it: every produced item is pushed once, behind the
\* job's earlier items, unless its rpush raises, which ends the run with
\* that one item produced and not pushed.
C13_PushOrderUnlessPushRaises ==
    /\ [](LET lost == Cardinality(YieldIdx) - Len(Mine(qitems))
          IN /\ pc \in {"loop", "execute", "update", "returned"} => lost = 0
             /\ pc = "push" => lost = 1
             /\ pc = "raised" => lost = IF error[1].src = "rpush" THEN 1 ELSE 0)
    /\ [][PushesInProductionOrder]_vars

\* Two items of the job in the queue, an item of another job between them.
C13_Witness ==
    /\ pc = "returned"
    /\ Len(qitems) = 3
    /\ IsMine(qitems[1])
    /\ ~IsMine(qitems[2])
    /\ IsMine(qitems[3])
    /\ qitems[1] # qitems[3]

\* The handler of a retryable error of run has acted.
RetryableFailureHandled ==
    \E i \in RaiseIdx :
        /\ trace[i].e.type # "AttributeError"
        /\ ~(pc = "raised" /\ i = Len(trace))

\* Every call of run that follows the first error found the job without cache.
LaterRunsWithoutCache ==
    \A i \in RunIdx : i > MinOf(RaiseIdx) => trace[i].args["cache"] = None

\* The handle is the one opened at initialization, in every call of run too.
CacheKept ==
    /\ cache = Some(cache_path[1])
    /\ \A i \in RunIdx : trace[i].args["cache"] = Some(cache_path[1])

\* C14 (cache disabled after a failure): with a writable cache, once the
\* handler of a retryable error has acted the job has no cache, in that state
\* and in every later one, and no later call of run is handed one; with
\* fetch_from_cache the handle stays the one opened at initialization.
C14_CacheDisabledAfterFailure ==
    /\ (bklass.has_caching /\ Writable(cache_path, fetch_from_cache)
        /\ RetryableFailureHandled)
       => (cache = None /\ LaterRunsWithoutCache)
    /\ (bklass.has_caching /\ TruthyPath(cache_path) /\ fetch_from_cache
        /\ pc # "start")
       => CacheKept

\* What the code keeps of C14: the same, in the executions where recover()
\* does not raise.
CacheDisabledUnlessRecoverRaises ==
    /\ (bklass.has_caching /\ Writable(cache_path, fetch_from_cache)
        /\ RetryableFailureHandled)
       => /\ LaterRunsWithoutCache
          /\ ~(pc = "failed" /\ error[1].src = "recover") => cache = None
    /\ (bklass.has_caching /\ TruthyPath(cache_path) /\ fetch_from_cache
        /\ pc # "start")
       => CacheKept

\* Positions in the queue, since the record was last replaced, of the items
\* that carry an offset.
OffsetIdx == {i \in (mark + 1)..Len(qitems) : "offset" \in DOMAIN qitems[i]}

Terminated == pc \in {"done", "failed"}

\* The cache precondition of execute_perceval_job passes.
PreconditionPasses ==
    bklass.has_caching \/ ~(TruthyPath(cache_path) \/ fetch_from_cache)

\* C16 (termination and attempt bound): execute_perceval_job never stops
\* short of an end, which is a success (the record is returned), a fatal
\* error (raised with no failure counted for it) or an abort (raised by the
\* handler of a counted failure), and only one of them; run is called at
\* most max(1, max_retries) times, and at least once by the end whenever the
\* cache precondition passes, also for max_retries <= 0.
C16_TerminationAndBound ==
    /\ Terminated \/ ENABLED Next
    /\ NRuns <= (IF max_retries > 1 THEN max_retries ELSE 1)
    /\ (Terminated /\ PreconditionPasses) => NRuns >= 1
    /\ pc = "failed" =>
          /\ error # None
          /\ error[1].type = "AttributeError" =>
                \/ error[1].src = "precondition" /\ NRuns = 0
                \/ failures = Cardinality(RaiseIdx) - 1
          /\ error[1].type # "AttributeError" =>
                (failures = Cardinality(RaiseIdx) /\ failures >= 1)
    /\ pc = "done" => (failures = Cardinality(RaiseIdx) /\ NRuns = failures + 1)

\* Every execution reaches an end (checked under FairSpec).
Terminates == <>Terminated

\* max_retries = -1: run was called once all the same, and the job aborted.
C16_Witness ==
    /\ pc = "failed"
    /\ max_retries = -1
    /\ bklass.has_resuming
    /\ NRuns = 1
    /\ failures = 1

\* C17 (resume flag and count): the first call of run in an execution has
\* resume=false and every later one resume=true; when the job succeeds,
\* nresumed is the number of failed attempts, the calls of run less one.
C17_ResumeFlagAndCount ==
    /\ \A i \in RunIdx : trace[i].resume <=> i # MinOf(RunIdx)
    /\ pc = "done" => /\ result.nresumed = NRuns - 1
                      /\ result.nresumed = failures
                      /\ result.nresumed = Cardinality(RaiseIdx)

\* The job succeeded at its second attempt.
C17_Witness ==
    /\ pc = "done"
    /\ NRuns = 2
    /\ result.nresumed = 1

Injected == {"cache", "from_date", "offset"}

\* The bag of the call of run recorded as ev is the caller's bag, plus the
\* cache entry, with from_date and offset either the caller's or the ones of
\* the record as the call found it.
BagOfCall(ev) ==
    /\ (DOMAIN backend_args) \cup {"cache"} \subseteq DOMAIN ev.args
    /\ DOMAIN ev.args \subseteq (DOMAIN backend_args) \cup Injected
    /\ \A k \in (DOMAIN backend_args) \ Injected : ev.args[k] = backend_args[k]
    /\ "from_date" \in DOMAIN ev.args =>
          \/ /\ "from_date" \in DOMAIN backend_args
             /\ ev.args["from_date"] = backend_args["from_date"]
          \/ /\ ev.resume
             /\ ev.prior.max_date # None
             /\ ev.args["from_date"] = UnixtimeToDatetime(ev.prior.max_date[1])
    /\ "offset" \in DOMAIN ev.args =>
          \/ /\ "offset" \in DOMAIN backend_args
             /\ ev.args["offset"] = backend_args["offset"]
          \/ /\ ev.resume
             /\ ev.prior.offset # None
             /\ ev.args["offset"] = ev.prior.offset[1]

\* C18 (the caller's bag): no step changes backend_args, and the bag of
\* every call of run is built from it anew: the caller's entries, the cache
\* entry, and from_date / offset from the record as that call found it.
C18_CallerBagUntouched ==
    /\ [][backend_args' = backend_args]_vars
    /\ [](backend_args \in BackendArgsSet)
    /\ [](\A i \in RunIdx : BagOfCall(trace[i]))

\* A resumed call replaced the caller's from_date and offset in its own bag,
\* and the caller's bag still holds the caller's values.
C18_Witness ==
    \E i \in RunIdx :
        /\ trace[i].resume
        /\ "from_date" \in DOMAIN backend_args
        /\ trace[i].args["from_date"] # backend_args["from_date"]
        /\ trace[i].args["offset"] # backend_args["offset"]
        /\ "cache" \notin DOMAIN backend_args

\* C19 (one rollback at most): Cache.recover() is called at most once in
\* an execution, and then as the call that follows the first error of run;
\* it is never called when fetch_from_cache is true or no cache path is given.
C19_RecoverAtMostOnce ==
    /\ Cardinality(RecoverIdx) <= 1
    /\ RecoverIdx # {} => RecoverIdx = {MinOf(RaiseIdx) + 1}
    /\ (fetch_from_cache \/ ~TruthyPath(cache_path)) => RecoverIdx = {}

\* Two attempts failed and only the first failure rolled the cache back.
C19_Witness ==
    /\ pc = "failed"
    /\ failures = 2
    /\ Cardinality(RecoverIdx) = 1
    /\ cache = None

\* C20 (no rollback on a non-retryable error): when a call of run raises
\* AttributeError while the job holds a writable cache, execute_perceval_job
\* raises it with no call of recover(), with the job's cache still in place
\* and with no failure counted.
C20_NoRollbackOnAttributeError ==
    (/\ Writable(cache_path, fetch_from_cache)
     /\ pc = "failed"
     /\ error[1].type = "AttributeError"
     /\ error[1].src = "backend"
     /\ trace[MaxOf(RunIdx)].args["cache"] # None)
    => /\ RecoverIdx = {}
       /\ cache = trace[MaxOf(RunIdx)].args["cache"]
       /\ cache = Some(cache_path[1])
       /\ failures = 0
       /\ error = Some(LastRaised)

\* The first attempt pushed an item, then raised AttributeError.
C20_Witness ==
    /\ Writable(cache_path, fetch_from_cache)
    /\ pc = "failed"
    /\ error[1].type = "AttributeError"
    /\ error[1].src = "backend"
    /\ cache # None
    /\ BackupIdx = {1}
    /\ qitems # <<>>

====
